---- MODULE Spec2Model ----
(***************************************************************************)
(* Widget Studio (src/src/pages/WidgetStudio.tsx): the generation loop,     *)
(* the debounced compile/evaluate step and the preview error boundary,      *)
(* together with the widget mount sites of the dashboard.                   *)
(*                                                                          *)
(* React state is modelled by one variable per useState cell.  A callback   *)
(* created in a render (the debounce effect, the auto-retry timer, the      *)
(* pending fetch continuation) keeps the values of the render it was        *)
(* created in; those values travel with it as a snapshot record.            *)
(***************************************************************************)
EXTENDS Integers, Sequences, FiniteSets, TLC

\* ------------------------------------------------------------------ bounds
MaxRequests == 2      \* generation requests issued in one studio session
MaxCorrections == 3   \* requests issued in one unattended edit session
MaxEdits == 1         \* hand edits of the source in one session
MaxPending == 2       \* auto-retry timers pending at one time

\* --------------------------------------------------------------- constants
DebounceMs == 500     \* setTimeout(evaluateCode, 500)
RetryMs == 1000       \* setTimeout(() => handleGenerate(errorMsg), 1000)
TickMs == DebounceMs  \* one step of the model clock
DebounceTicks == DebounceMs \div TickMs
RetryTicks == RetryMs \div TickMs

None == "none"

VARIABLES
    \* useState cells of WidgetStudio
    code, prompt, messages, isGenerating, previewError, previewComponent,
    viewMode,
    \* environment of the page
    babel,            \* window.Babel is present
    editLoad,         \* the edit-load fetch is still outstanding
    \* WidgetErrorBoundary instance of the preview pane
    boundary,         \* "unmounted" | "ok" | "failed"
    boundaryError,    \* state.error.message of the boundary
    boundaryChild,    \* component value the boundary last rendered
    \* timers and network
    debounce,         \* the pending evaluateCode timer, if any
    retryTimers,      \* pending auto-retry timers, oldest first
    inflight,         \* generation requests awaiting their response
    requestCount,     \* requests issued so far
    uncaught,         \* an exception escaped a timer callback
    evaluated,        \* the source evaluateCode last ran on (None before the
                      \* first run), and whether its timer had replaced a pending one
    \* bookkeeping of the session (observers only, never read by an action guard)
    editCount,
    autoChain,        \* auto-corrections sent for failures seen since the user
                      \* or the edit-load last stepped in
    \* widget mount sites of the host application
    sites,            \* what each mount slot shows
    hostAlive,        \* the React root still renders the application
    faulted,          \* bookkeeping: the slot whose widget threw in the last step
    \* widget registry of the host application
    widgetRegistry,   \* the widgetRegistry object: its entries in insertion order
    version,          \* the version token useWidgetRegistry() hands out
    stored,           \* custom widgets the persistence service holds
    pageLoads,        \* times the application was loaded into the tab
    registered,       \* bookkeeping: per id, the calls of registerWidget since the
                      \* page was loaded and the definition of the last one
    lastOp,           \* bookkeeping: the registry operation of the last step
    \* dashboard store (DashboardProvider) and the configuration modal
    tabs,             \* the user's tabs, each with its widget list and lock
    activeTabId,
    viewingTemplate,  \* name of the template on screen, or None
    configModal,      \* the store's configModal: isOpen, widgetId, onSave
    formData,         \* ConfigModal: value of the required field of the form
    jsonConfig,       \* ConfigModal: text of the JSON fallback editor
    nextUuid,         \* uuidv4() calls made so far, plus one
    lastEvent,        \* bookkeeping: the dashboard event of the last step
    \* useActionLogger instances and what they caused
    loggers,          \* per mounted widget: isConfirming and pendingAction
    widgetStatus,     \* per mounted widget: its status cell
    actionLog,        \* log requests issued (POST /api/actions/log)
    executed,         \* backend actions called
    initiations,      \* user-triggered executions so far
    \* DatabricksJobRunnerWidget
    status,           \* 'idle' | 'triggering' | 'running' | 'success' | ...
    runId,            \* run of the widget, NoRun for null
    pollingIntervalRef, \* run whose interval the ref holds, NoRun for null
    intervals,        \* runs whose setInterval timer is live
    fetches,          \* requests of the widget awaiting their answer
    pollsIssued,      \* status requests issued so far
    settled,          \* bookkeeping: the status reset() or a successful cancel
                      \* left, None from the next trigger on
    \* useState cell of WidgetStudio read by handlePublish
    editingId,        \* id of the stored widget the session edits, or None
    \* ExecuteNotebookWidget
    selectedNotebook, \* path chosen in the select, "" for none
    notebookStatus,   \* its status cell: 'idle' | 'loading' | 'success' | 'error'
    result,           \* a result is shown (the cell is not null)
    polls,            \* runs in progress: where each run's chain of requests is
    notebookRuns,     \* runs started so far
    \* useScript(url, name) and the document it works on
    windowGlobal,     \* window[name] is set
    script,           \* data-status of the script element of url, or no element
    finished,         \* the event the script's fetch has ended with, if any
    appended,         \* bookkeeping: script elements of url appended so far
    consumers         \* per component using the hook: its cells and listeners

studioVars == <<code, prompt, messages, isGenerating, previewError,
                previewComponent, viewMode, babel, editLoad, boundary,
                boundaryError, boundaryChild, debounce, retryTimers, inflight,
                requestCount, uncaught, evaluated, editCount, autoChain>>
mountVars == <<sites, hostAlive, faulted>>
registryVars == <<widgetRegistry, version, stored, pageLoads, registered, lastOp>>
dashVars == <<tabs, activeTabId, viewingTemplate, configModal, formData,
              jsonConfig, nextUuid, lastEvent>>
actionVars == <<loggers, widgetStatus, actionLog, executed, initiations>>
jobVars == <<status, runId, pollingIntervalRef, intervals, fetches,
             pollsIssued, settled>>
notebookVars == <<selectedNotebook, notebookStatus, result, polls, notebookRuns>>
scriptVars == <<windowGlobal, script, finished, appended, consumers>>
hostVars == <<dashVars, actionVars, jobVars, editingId, notebookVars,
              scriptVars>>
vars == <<studioVars, mountVars, registryVars, hostVars>>

\* ----------------------------------------------------------------- sources
\* Source texts the editor, the stored widget or the generation service can
\* supply.  Each stands for a class of texts with one compile/render outcome.
HelloSource == "hello"
Sources == {"hello", "badE1", "badE1b", "badE2", "rthrow", "empty", "thrownull"}

\* Outcome of Babel.transform + new Function + createComponent for a source:
\* the component value, or the value thrown.
Transpile(src) ==
    CASE src = "hello"     -> [ok |-> TRUE,  component |-> "hello", thrown |-> None]
      [] src = "rthrow"    -> [ok |-> TRUE,  component |-> "rthrow", thrown |-> None]
      [] src = "badE1"     -> [ok |-> FALSE, component |-> None, thrown |-> "E1"]
      [] src = "badE1b"    -> [ok |-> FALSE, component |-> None, thrown |-> "E1"]
      [] src = "badE2"     -> [ok |-> FALSE, component |-> None, thrown |-> "E2"]
      [] src = "thrownull" -> [ok |-> FALSE, component |-> None, thrown |-> "null"]

\* What rendering a component value does: None when it renders, else the
\* message of the Error it throws.
RenderThrows(component) ==
    IF component = "rthrow" THEN "R1" ELSE None

\* err.message || String(err) of the catch block.  Reading .message of a
\* thrown null/undefined raises a TypeError inside the catch block itself.
ErrorMsgRaises(thrown) == thrown = "null"
ErrorMsg(thrown) == thrown

BabelMissing == "Babel compiler missing"

\* The try block of evaluateCode for the source of the closure: the Babel
\* check, the placeholder for an empty source, then transpile and evaluate.
TryEvaluate(src) ==
    IF ~babel THEN [ok |-> FALSE, component |-> None, thrown |-> BabelMissing]
    ELSE IF src = "empty" THEN [ok |-> TRUE, component |-> "placeholder", thrown |-> None]
    ELSE Transpile(src)

\* ------------------------------------------------------------------- turns
Turn(role, text, arg) == [role |-> role, text |-> text, arg |-> arg]
WelcomeTurn == Turn("assistant", "Welcome to the Widget Studio!", None)
LoadedTurn == Turn("assistant", "Loaded for editing", None)
UserTurn(p) == Turn("user", p, None)
RetryTurn(err) == Turn("system", "Auto-retrying due to compilation error", err)
AssistantTurn == Turn("assistant", "explanation", None)
ServerErrorTurn == Turn("system", "Server Error", None)
NetworkErrorTurn == Turn("system", "Network Error", None)

\* The values of the render a callback was created in.
\* Of the closure only what the callbacks read back into the page is kept:
\* messages, isGenerating and previewError.  prompt, code and the data-source
\* fields of the closure go into the request body only.
Snapshot(m, g, e) ==
    [messages |-> m, isGenerating |-> g, previewError |-> e]

\* ---------------------------------------------------------------- the clock
AgeTimer(t) == [t EXCEPT !.rem = t.rem - 1]
AgeAll(ts) == [i \in 1..Len(ts) |-> AgeTimer(ts[i])]
TimerDue ==
    \/ debounce # <<>> /\ Head(debounce).rem = 0
    \/ retryTimers # <<>> /\ Head(retryTimers).rem = 0

\* bookkeeping: the timers pending when a prompt is submitted, and the timers
\* pending when the user or the edit-load steps in
MarkPrePrompt(ts) == [i \in 1..Len(ts) |-> [ts[i] EXCEPT !.prePrompt = TRUE]]
MarkOld(ts) == [i \in 1..Len(ts) |-> [ts[i] EXCEPT !.fresh = FALSE]]

\* bookkeeping: an auto-correction is scheduled or awaiting its response
InStreak ==
    \/ retryTimers # <<>>
    \/ \E r \in inflight : r.auto

\* variant: the effect has no cleanup, the previous timer stays pending
DebouncedKeep(newCode, origin) ==
    IF newCode = code THEN debounce
    ELSE Append(debounce,
                [rem |-> DebounceTicks, code |-> newCode,
                 replaced |-> debounce # <<>>,
                 snap |-> Snapshot(messages', isGenerating', previewError'),
                 origin |-> origin, streak |-> InStreak,
                 prompted |-> None])

\* useEffect(..., [code]): runs when the committed code differs from the
\* previous render's; its cleanup clears the previous timer.  The timer's
\* evaluateCode keeps the code of the render that set it.
Debounced(newCode, origin) ==
    IF newCode = code THEN debounce
    ELSE <<[rem |-> DebounceTicks, code |-> newCode,
            replaced |-> debounce # <<>>,
            snap |-> Snapshot(messages', isGenerating', previewError'),
            origin |-> origin, streak |-> InStreak,
                 prompted |-> None]>>

\* ------------------------------------------------- preview pane and boundary
\* The preview pane mounts WidgetErrorBoundary only in the middle branch of
\* previewError ? ... : previewComponent ? ... : ...
BoundaryMounted(vm, perr, pcomp) ==
    vm = "preview" /\ perr = None /\ pcomp # None

\* render() of the boundary returns its children only while hasError is
\* false; a child is rendered anew when the boundary mounts or is handed
\* another component value.
RendersChild(vm, perr, pcomp) ==
    /\ BoundaryMounted(vm, perr, pcomp)
    /\ \/ boundary = "unmounted"
       \/ boundary = "ok" /\ pcomp # boundaryChild

\* variant: onError schedules the retry whatever isGenerating is
OnErrorAlways(ts, msg) ==
    Append(ts, [rem |-> RetryTicks, err |-> msg, kind |-> "render",
                snap |-> Snapshot(messages', isGenerating', previewError'),
                prePrompt |-> FALSE, fresh |-> TRUE])

\* onError of the boundary: schedule handleGenerate(err.message) unless the
\* render it belongs to has isGenerating set.
OnError(ts, msg) ==
    IF isGenerating' THEN ts
    ELSE Append(ts, [rem |-> RetryTicks, err |-> msg, kind |-> "render",
                     snap |-> Snapshot(messages', isGenerating', previewError'),
                     prePrompt |-> FALSE, fresh |-> TRUE])

\* React commit after the state updates of a handler: mounts, unmounts or
\* re-renders the boundary and its child.  ts are the timers the handler leaves.
Commit(ts) ==
    LET mounted == BoundaryMounted(viewMode', previewError', previewComponent')
        renders == RendersChild(viewMode', previewError', previewComponent')
        thrown == IF renders THEN RenderThrows(previewComponent') ELSE None
    IN  /\ boundary' = IF ~mounted THEN "unmounted"
                       ELSE IF thrown # None THEN "failed"
                       ELSE IF renders THEN "ok"
                       ELSE boundary
        /\ boundaryError' = IF ~mounted THEN None
                            ELSE IF thrown # None THEN thrown
                            ELSE boundaryError
        /\ boundaryChild' = IF ~mounted THEN None
                            ELSE IF renders THEN previewComponent'
                            ELSE boundaryChild
        /\ retryTimers' = IF thrown # None THEN OnError(ts, thrown) ELSE ts
        /\ Len(retryTimers') <= MaxPending

\* ------------------------------------------------------------------- start
StudioInit(editWidgetId) ==
    /\ code = HelloSource
    /\ prompt = ""
    /\ messages = <<WelcomeTurn>>
    /\ isGenerating = FALSE
    /\ previewError = None
    /\ previewComponent = None
    /\ viewMode = "preview"
    /\ babel \in BOOLEAN
    /\ editLoad = editWidgetId
    /\ boundary = "unmounted"
    /\ boundaryError = None
    /\ boundaryChild = None
    /\ debounce = <<[rem |-> DebounceTicks, code |-> HelloSource,
                     replaced |-> FALSE,
                     snap |-> Snapshot(<<WelcomeTurn>>, FALSE, None),
                     origin |-> "mount", streak |-> FALSE,
                     prompted |-> None]>>
    /\ retryTimers = <<>>
    /\ inflight = {}
    /\ requestCount = 0
    /\ uncaught = FALSE
    /\ evaluated = [code |-> None, replaced |-> FALSE]
    /\ editCount = 0
    /\ autoChain = <<>>

\* ------------------------------------------------------------ user actions
\* TSX editor onChange: setCode(e.target.value)
EditCode(c) ==
    /\ viewMode = "code"
    /\ c # code
    /\ editCount < MaxEdits
    /\ code' = c
    /\ editCount' = editCount + 1
    /\ UNCHANGED <<prompt, messages, isGenerating, previewError,
                   previewComponent, viewMode, babel, editLoad, requestCount,
                   uncaught, evaluated>>
    /\ debounce' = Debounced(c, "edit")
    /\ inflight' = {[r EXCEPT !.edited = TRUE] : r \in inflight}
    /\ autoChain' = <<>>
    /\ Commit(MarkOld(retryTimers))
    /\ UNCHANGED <<mountVars, registryVars, hostVars>>

\* the three tab buttons: setViewMode(...)
SetViewMode(v) ==
    /\ v # viewMode
    /\ viewMode' = v
    /\ UNCHANGED <<code, prompt, messages, isGenerating, previewError,
                   previewComponent, babel, editLoad, debounce, inflight,
                   requestCount, uncaught, evaluated, editCount>>
    /\ autoChain' = <<>>
    /\ Commit(MarkOld(retryTimers))
    /\ UNCHANGED <<mountVars, registryVars, hostVars>>

\* "Try Again" of the fallback: setState({hasError: false}); onReset() =
\* setPreviewComponent(null)
TryAgain ==
    /\ boundary = "failed"
    /\ previewComponent' = None
    /\ UNCHANGED <<code, prompt, messages, isGenerating, previewError,
                   viewMode, babel, editLoad, debounce, inflight, requestCount,
                   uncaught, evaluated, editCount>>
    /\ autoChain' = <<>>
    /\ Commit(MarkOld(retryTimers))
    /\ UNCHANGED <<mountVars, registryVars, hostVars>>

\* ------------------------------------------------------------ handleGenerate
\* The POST to /api/agent/widget/generate issued from the closure snap: the
\* error_log of its body, and the newMessages its continuation keeps.
Request(snap, autoRetryError, newMessages) ==
    [id |-> requestCount + 1,
     auto |-> autoRetryError # None,
     errorLog |-> IF autoRetryError # None THEN autoRetryError ELSE snap.previewError,
     newMessages |-> newMessages,
     kind |-> "user", edited |-> FALSE, stale |-> FALSE, prePrompt |-> FALSE,
     \* bookkeeping: what decided about auto-retries when the request was sent
     before |-> [previewError |-> previewError, isGenerating |-> isGenerating,
                 retryTimers |-> Len(retryTimers) - (IF autoRetryError # None THEN 1 ELSE 0)]]

\* The user types the prompt p and presses Enter in the textarea:
\* setPrompt(p), then handleGenerate() of the render that shows p.  Enter is
\* not disabled while a generation is outstanding (the send button is).
SubmitPrompt(p) ==
    /\ p # ""
    /\ requestCount < MaxRequests
    /\ LET snap == Snapshot(messages, isGenerating, previewError)
           newMessages == Append(messages, UserTurn(p))
       IN  /\ messages' = newMessages
           /\ inflight' = inflight \cup {Request(snap, None, newMessages)}
    /\ prompt' = ""
    /\ previewError' = None
    /\ isGenerating' = TRUE
    /\ requestCount' = requestCount + 1
    /\ UNCHANGED <<code, previewComponent, viewMode, babel, editLoad, debounce,
                   uncaught, evaluated, editCount>>
    /\ autoChain' = <<>>
    /\ Commit(MarkOld(MarkPrePrompt(retryTimers)))
    /\ UNCHANGED <<mountVars, registryVars, hostVars>>

\* an auto-retry timer fires: handleGenerate(errorMsg) of the render that
\* scheduled it
RetryFire(limit) ==
    /\ retryTimers # <<>>
    /\ Head(retryTimers).rem = 0
    /\ requestCount < limit
    /\ LET t == Head(retryTimers)
           newMessages == Append(t.snap.messages, RetryTurn(t.err))
           req == [Request(t.snap, t.err, newMessages) EXCEPT
                       !.kind = t.kind, !.prePrompt = t.prePrompt]
       IN  /\ messages' = Append(messages, RetryTurn(t.err))
           /\ inflight' = inflight \cup {req}
           /\ autoChain' = IF t.fresh
                           THEN Append(autoChain, [err |-> t.err, kind |-> t.kind])
                           ELSE autoChain
    /\ isGenerating' = TRUE
    /\ requestCount' = requestCount + 1
    /\ retryTimers' = Tail(retryTimers)
    /\ UNCHANGED <<code, prompt, previewError, previewComponent, viewMode,
                   babel, editLoad, boundary, boundaryError, boundaryChild,
                   debounce, uncaught, evaluated, editCount>>
    /\ UNCHANGED <<mountVars, registryVars, hostVars>>

\* bookkeeping: requests issued before r whose answer is still to come
Overtaken(rs, r) == {[q EXCEPT !.stale = (q.stale \/ q.id < r.id)] : q \in rs}

\* bookkeeping: the timer set for the source of a prompt's response keeps the
\* error that was displayed when the prompt was submitted
Prompted(ts, r) ==
    IF code' = code \/ r.auto THEN ts
    ELSE [ts EXCEPT ![Len(ts)].prompted = r.before.previewError]

\* the fetch of request r resolves with a 2xx answer; c is data.code, None
\* when the answer carries no code
ResponseOk(r, c) ==
    /\ r \in inflight
    /\ code' = IF c # None THEN c ELSE code
    /\ messages' = Append(r.newMessages, AssistantTurn)
    /\ isGenerating' = FALSE
    /\ inflight' = IF c # None THEN Overtaken(inflight \ {r}, r) ELSE inflight \ {r}
    /\ UNCHANGED <<prompt, previewError, previewComponent, viewMode, babel,
                   editLoad, requestCount, uncaught, evaluated, editCount, autoChain>>
    /\ debounce' = Prompted(Debounced(code', "response"), r)
    /\ Commit(retryTimers)
    /\ UNCHANGED <<mountVars, registryVars, hostVars>>

\* variant: the error paths also clear the preview error
ResponseErrorClearing(r, how) ==
    /\ r \in inflight
    /\ messages' = Append(r.newMessages,
                          IF how = "http" THEN ServerErrorTurn ELSE NetworkErrorTurn)
    /\ isGenerating' = FALSE
    /\ previewError' = None
    /\ inflight' = inflight \ {r}
    /\ UNCHANGED <<code, prompt, previewComponent, viewMode, babel, editLoad,
                   debounce, requestCount, uncaught, evaluated, editCount,
                   autoChain>>
    /\ Commit(retryTimers)
    /\ UNCHANGED <<mountVars, registryVars, hostVars>>

\* the fetch of request r resolves with a non-2xx answer ("http"), or it
\* rejects or its body is not JSON ("network")
ResponseError(r, how) ==
    /\ r \in inflight
    /\ messages' = Append(r.newMessages,
                          IF how = "http" THEN ServerErrorTurn ELSE NetworkErrorTurn)
    /\ isGenerating' = FALSE
    /\ inflight' = inflight \ {r}
    /\ UNCHANGED <<code, prompt, previewError, previewComponent, viewMode,
                   babel, editLoad, debounce, requestCount, uncaught, evaluated,
                   editCount, autoChain>>
    /\ Commit(retryTimers)
    /\ UNCHANGED <<mountVars, registryVars, hostVars>>

\* the id the session was opened with (editWidgetId), when it was
EditWidgetId == "kpi1"

\* the edit-load effect: fetch('/api/widgets/custom') resolves; c is the
\* tsx_code of the widget found, None when it is absent or the fetch fails
LoadForEdit(c) ==
    /\ editLoad
    /\ editLoad' = FALSE
    /\ code' = IF c # None THEN c ELSE code
    /\ messages' = IF c # None THEN <<LoadedTurn>> ELSE messages
    /\ UNCHANGED <<prompt, isGenerating, previewError, previewComponent,
                   viewMode, babel, inflight, requestCount, uncaught, evaluated,
                   editCount>>
    /\ debounce' = Debounced(code', "load")
    /\ editingId' = IF c # None THEN EditWidgetId ELSE editingId
    /\ autoChain' = IF c # None THEN <<>> ELSE autoChain
    /\ Commit(IF c # None THEN MarkOld(retryTimers) ELSE retryTimers)
    /\ UNCHANGED <<mountVars, registryVars, dashVars, actionVars, jobVars,
                   notebookVars, scriptVars>>

\* -------------------------------------------------------------- evaluateCode
\* variant: every caught error is reported, the shown one too
ErrorChangedAlways(closureError, errorMsg) == TRUE

\* if (previewError !== errorMsg): the error differs from the one of the
\* closure
ErrorChanged(closureError, errorMsg) == closureError # errorMsg

\* if (!isGenerating): auto-retry only when the closure saw no generation
MayAutoRetry(closureGenerating) == ~closureGenerating

\* the debounce timer fires: evaluateCode of the render that set it
EvaluateCode ==
    /\ debounce # <<>>
    /\ Head(debounce).rem = 0
    /\ LET snap == Head(debounce).snap
           res == TryEvaluate(Head(debounce).code)
           escapes == ~res.ok /\ ErrorMsgRaises(res.thrown)
           errorMsg == ErrorMsg(res.thrown)
           reports == ~res.ok /\ ~escapes /\ ErrorChanged(snap.previewError, errorMsg)
           retries == reports /\ MayAutoRetry(snap.isGenerating)
           timer == [rem |-> RetryTicks, err |-> errorMsg, kind |-> "compile",
                     snap |-> snap, prePrompt |-> FALSE, fresh |-> TRUE]
       IN  /\ previewError' = IF reports THEN errorMsg ELSE None
           /\ previewComponent' = IF res.ok THEN res.component
                                  ELSE IF reports THEN None
                                  ELSE previewComponent
           /\ uncaught' = (uncaught \/ escapes)
           /\ UNCHANGED <<code, prompt, messages, isGenerating, viewMode, babel,
                          editLoad, inflight, requestCount, editCount, autoChain>>
           /\ debounce' = Tail(debounce)
           /\ evaluated' = [code |-> Head(debounce).code,
                             replaced |-> Head(debounce).replaced]
           /\ Commit(IF retries THEN Append(retryTimers, timer) ELSE retryTimers)
    /\ UNCHANGED <<mountVars, registryVars, hostVars>>

\* ------------------------------------------------------------------ the clock
\* time passes while no timer is due
Tick ==
    /\ debounce # <<>> \/ retryTimers # <<>>
    /\ ~TimerDue
    /\ debounce' = AgeAll(debounce)
    /\ retryTimers' = AgeAll(retryTimers)
    /\ UNCHANGED <<code, prompt, messages, isGenerating, previewError,
                   previewComponent, viewMode, babel, editLoad, boundary,
                   boundaryError, boundaryChild, inflight, requestCount,
                   uncaught, evaluated, editCount, autoChain>>
    /\ UNCHANGED <<mountVars, registryVars, hostVars>>

ViewModes == {"preview", "code", "config"}
Prompts == {"p"}

\* --------------------------------------------------------------- mount sites
\* The places where a widget component is rendered: the studio preview, the
\* library cards of the widget tray, the dashboard grid and the fullscreen
\* modal.
GridSlots == 2        \* widgets on the active tab
LibrarySlots == 2     \* cards shown in the widget tray
Slots == {<<"studio", 1>>, <<"fullscreen", 1>>}
         \cup {<<"grid", n>> : n \in 1..GridSlots}
         \cup {<<"library", n>> : n \in 1..LibrarySlots}
NoSlot == <<"none", 0>>

\* Is the component of this site rendered inside an error boundary?
\* WidgetErrorBoundary wraps the studio preview, WidgetPreviewErrorBoundary the
\* library card; the grid and the fullscreen modal render <Component/> bare.
HasBoundary(site) ==
    CASE site = "studio" -> TRUE
      [] site = "library" -> TRUE
      [] site = "grid" -> FALSE
      [] site = "fullscreen" -> FALSE

MountInit ==
    /\ sites = [s \in Slots |-> "absent"]
    /\ hostAlive = TRUE
    /\ faulted = NoSlot

\* A component throws while rendering in slot s: the nearest boundary shows
\* its fallback; with no boundary above it React unmounts the whole root.
RenderError(s) ==
    /\ faulted' = s
    /\ IF HasBoundary(s[1])
       THEN /\ sites' = [sites EXCEPT ![s] = "fallback"]
            /\ hostAlive' = hostAlive
       ELSE /\ sites' = [o \in Slots |-> "absent"]
            /\ hostAlive' = FALSE

\* a widget is mounted in slot s; throws tells whether its first render throws
MountWidget(s, throws) ==
    /\ hostAlive
    /\ sites[s] = "absent"
    /\ IF throws THEN RenderError(s)
       ELSE /\ sites' = [sites EXCEPT ![s] = "rendering"]
            /\ UNCHANGED hostAlive
            /\ faulted' = NoSlot
    /\ UNCHANGED <<studioVars, registryVars, hostVars>>

\* a mounted widget throws in a later update
UpdateWidget(s) ==
    /\ hostAlive
    /\ sites[s] = "rendering"
    /\ RenderError(s)
    /\ UNCHANGED <<studioVars, registryVars, hostVars>>

\* the slot is removed: widget removed from the tab, tray or modal closed
UnmountWidget(s) ==
    /\ hostAlive
    /\ sites[s] # "absent"
    /\ sites' = [sites EXCEPT ![s] = "absent"]
    /\ faulted' = NoSlot
    /\ UNCHANGED hostAlive
    /\ UNCHANGED <<studioVars, registryVars, hostVars>>

NextMount ==
    \/ \E s \in Slots : \E throws \in BOOLEAN : MountWidget(s, throws)
    \/ \E s \in Slots : UpdateWidget(s)
    \/ \E s \in Slots : UnmountWidget(s)

\* ---------------------------------------------------------- widget registry
MaxOps == 4           \* registry operations in one run
IdOrder == <<"kpi1", "kpi2">>      \* ids the persistence service hands out
Ids == {IdOrder[i] : i \in 1..Len(IdOrder)}
\* a definition is told from another of the same id by the source it was made of
DefSources == {"hello", "rthrow", "badE1"}
Defs == [id : Ids \cup {""}, src : DefSources]
NoDef == [id |-> None, src |-> None]

\* export const widgetRegistry: Record<string, WidgetDefinition> = {}
\* An object keeps its own keys in insertion order; an entry is a key with its
\* value.
Keys(reg) == {reg[i].key : i \in 1..Len(reg)}

\* variant: the registry is a list and registering pushes
registerWidgetPush(reg, def) == Append(reg, [key |-> def.id, def |-> def])

\* registerWidget: widgetRegistry[def.id] = def
registerWidget(reg, def) ==
    IF def.id \in Keys(reg)
    THEN [i \in 1..Len(reg) |->
             IF reg[i].key = def.id THEN [key |-> def.id, def |-> def] ELSE reg[i]]
    ELSE Append(reg, [key |-> def.id, def |-> def])

\* getAvailableWidgets: Object.values(widgetRegistry)
getAvailableWidgets(reg) == [i \in 1..Len(reg) |-> reg[i].def]

\* bookkeeping: one more call of registerWidget for def.id
Noted(calls, def) ==
    [calls EXCEPT ![def.id] = [times |-> calls[def.id].times + 1, def |-> def]]

NoOp == [n |-> 0, op |-> "none", id |-> None, src |-> None, outcome |-> "none"]
Op(op, id, src, outcome) ==
    [n |-> lastOp.n + 1, op |-> op, id |-> id, src |-> src, outcome |-> outcome]

\* the module as evaluated at page load, before its registerWidget calls
RegistryInit ==
    /\ widgetRegistry = <<>>
    /\ version = 0
    /\ stored = [id \in Ids |-> None]
    /\ pageLoads = 1
    /\ registered = [id \in Ids \cup {""} |-> [times |-> 0, def |-> NoDef]]
    /\ lastOp = NoOp

\* a call registerWidget(def), as the module makes for each built-in widget
CallRegisterWidget(def) ==
    /\ lastOp.n < MaxOps
    /\ widgetRegistry' = registerWidget(widgetRegistry, def)
    /\ registered' = Noted(registered, def)
    /\ lastOp' = Op("register", def.id, None, "ok")
    /\ UNCHANGED <<version, stored, pageLoads>>
    /\ UNCHANGED <<studioVars, mountVars, hostVars>>

\* the version token after a mutation of the registry
BumpVersion(v) == v + 1

\* loadCustomWidgets: the widgets of the persistence service, from the i-th
\* on, are registered, each under its stored id, if its source compiles
RECURSIVE LoadFrom(_, _, _)
LoadFrom(acc, st, i) ==
    IF i > Len(IdOrder) THEN acc
    ELSE LET id == IdOrder[i]
             def == [id |-> id, src |-> st[id]]
         IN  IF st[id] # None /\ Transpile(st[id]).ok
             THEN LoadFrom([reg |-> registerWidget(acc.reg, def),
                            calls |-> Noted(acc.calls, def)], st, i + 1)
             ELSE LoadFrom(acc, st, i + 1)

loadCustomWidgets(st) ==
    LET res == LoadFrom([reg |-> widgetRegistry, calls |-> registered], st, 1)
    IN  /\ widgetRegistry' = res.reg
        /\ registered' = res.calls
        /\ version' = BumpVersion(version)

\* the application fetches the stored widgets after it has started
LoadCustomWidgets ==
    /\ lastOp.n < MaxOps
    /\ loadCustomWidgets(stored)
    /\ lastOp' = Op("load", None, None, "ok")
    /\ UNCHANGED <<stored, pageLoads>>
    /\ UNCHANGED <<studioVars, mountVars, hostVars>>

\* handlePublish with the source src in the editor: PUT for the widget being
\* edited, POST for a new one (the service picks its id); ok is res.ok
Publish(id, src, ok) ==
    /\ lastOp.n < MaxOps
    /\ IF ok
       THEN /\ stored' = [stored EXCEPT ![id] = src]
            /\ loadCustomWidgets(stored')
            /\ lastOp' = Op("publish", id, src, "published")
       ELSE /\ lastOp' = Op("publish", id, src, "failed")
            /\ UNCHANGED <<stored, widgetRegistry, registered, version>>
    /\ UNCHANGED pageLoads
    /\ UNCHANGED <<studioVars, mountVars, hostVars>>

\* ========================================================= dashboard store
\* DashboardProvider (client/src/store/dashboardStore.tsx), the grid of
\* App.tsx, the widget tray and the configuration modal.
MaxTabs == 2          \* user tabs the store holds
MaxAdds == 1          \* widgets one session adds to its tabs

NoTab == [id |-> None, widgets |-> <<>>, locked |-> FALSE]

Widget(i, type, x) == [i |-> i, type |-> type, x |-> x, props |-> None]

TEMPLATES ==
    "Executive View" :>
        [id |-> "temp-exec", locked |-> FALSE,
         widgets |-> <<Widget("w1", "alerts", 0), Widget("w2", "inventory", 3),
                       Widget("w3", "genie", 9), Widget("w4", "external", 0)>>]
    @@ "Production" :>
        [id |-> "temp-prod", locked |-> FALSE,
         widgets |-> <<Widget("p1", "gantt", 0), Widget("p2", "action", 8),
                       Widget("p3", "supplier_form", 8)>>]

TemplateNames == DOMAIN TEMPLATES

DEFAULT_TABS == <<[TEMPLATES["Executive View"] EXCEPT !.id = "default-1"]>>

\* a dashboard an earlier session left in localStorage: a copy of the
\* Production template
SavedTabs ==
    <<[id |-> "saved-1", locked |-> FALSE,
       widgets |-> <<Widget("s1", "gantt", 0), Widget("s2", "action", 8)>>]>>

\* widgets the tray offers, with their registry entries
Library == {"job_runner", "n8n_trigger", "execute_notebook"}

configurationMode(type) ==
    CASE type \in {"n8n_trigger", "execute_notebook"} -> "config_required"
      [] type = "job_runner" -> "config_allowed"
      [] OTHER -> "none"

\* the registry entry has a configSchema (with one required field)
hasSchema(type) == type \in {"n8n_trigger", "job_runner"}

defaultValue(type) ==
    CASE type = "n8n_trigger" -> "workflow-123"
      [] type = "job_runner" -> "123456"
      [] OTHER -> ""

FieldValues == {"", "typed"}
JsonTexts == {"{}", "invalid"}

uuidv4(n) == "u" \o ToString(n)

TabIds(ts) == {ts[k].id : k \in 1..Len(ts)}

TabOf(ts, id) ==
    IF id \in TabIds(ts)
    THEN ts[CHOOSE k \in 1..Len(ts) : ts[k].id = id]
    ELSE NoTab

\* const activeTab = viewingTemplate ? TEMPLATES[viewingTemplate] : tabs.find(...)
GridTab(ts, a, v) == IF v # None THEN TEMPLATES[v] ELSE TabOf(ts, a)

\* const isLocked = !viewingTemplate && activeTab?.locked === true
isLocked == viewingTemplate = None /\ TabOf(tabs, activeTabId).locked

\* the view on screen cannot be edited: a locked tab or a template
ReadOnlyView == viewingTemplate # None \/ isLocked

\* the widget lists of the stored tabs
WidgetLists(ts) == [k \in 1..Len(ts) |-> ts[k].widgets]

\* position is undefined
NoPosition == -1

addWidget(ts, tabId, type, x, config) ==
    [k \in 1..Len(ts) |->
        IF ts[k].id # tabId THEN ts[k]
        ELSE [ts[k] EXCEPT !.widgets =
                 Append(@, [i |-> uuidv4(nextUuid), type |-> type,
                            x |-> IF x # NoPosition THEN x
                                  ELSE (Len(ts[k].widgets) * 4) % 12,
                            props |-> config])]]

\* the stored widget the layout item l belongs to, with its new position
Merged(ws, l) ==
    LET k == CHOOSE j \in 1..Len(ws) : ws[j].i = l.i
    IN  [ws[k] EXCEPT !.x = l.x]

updateLayout(ts, tabId, newLayout) ==
    [k \in 1..Len(ts) |->
        IF ts[k].id # tabId THEN ts[k]
        ELSE LET known == SelectSeq(newLayout,
                              LAMBDA l : \E j \in 1..Len(ts[k].widgets) :
                                            ts[k].widgets[j].i = l.i)
             IN  [ts[k] EXCEPT !.widgets =
                     [j \in 1..Len(known) |-> Merged(ts[k].widgets, known[j])]]]

ClosedModal == [isOpen |-> FALSE, widgetId |-> None, onSave |-> None]

\* the store's openConfigModal(widgetId, onSave): onSave is the closure of
\* the caller, kept as the arguments it will pass to addWidget
openConfigModal(widgetId, tabId, x) ==
    [isOpen |-> TRUE, widgetId |-> widgetId,
     onSave |-> [tabId |-> tabId, type |-> widgetId, x |-> x]]

closeConfigModal == ClosedModal

\* ---------------------------------------------------- useActionLogger
MaxRuns == 3          \* user-triggered executions of one session

\* widget types whose component calls useActionLogger
HookTypes == {"action", "execute_notebook"}

\* pendingAction is null
NoAction == [action |-> None, n |-> 0]

IdleLogger == [isConfirming |-> FALSE, pendingAction |-> NoAction]

\* widgets of the view on screen that hold a useActionLogger instance
Hooked(ts, a, v) ==
    LET ws == GridTab(ts, a, v).widgets
    IN  {ws[k].i : k \in {j \in 1..Len(ws) : ws[j].type \in HookTypes}}

\* the grid renders the view: instances of widgets that left the screen are
\* unmounted and lose their state, new ones mount idle
Remount(ts, a, v) ==
    /\ loggers' = [i \in Hooked(ts, a, v) |->
                     IF i \in DOMAIN loggers THEN loggers[i] ELSE IdleLogger]
    /\ widgetStatus' = [i \in Hooked(ts, a, v) |->
                          IF i \in DOMAIN widgetStatus THEN widgetStatus[i]
                          ELSE "idle"]

\* widgets: activeTab.widgets.map(w => ({ id, type, props }))
Shown(ws) == [k \in 1..Len(ws) |-> [id |-> ws[k].i, type |-> ws[k].type,
                                    props |-> ws[k].props]]

NoContext == [error |-> "No active tab found"]

getDashboardContext ==
    LET activeTab == IF viewingTemplate # None THEN NoTab
                     ELSE TabOf(tabs, activeTabId)
    IN  IF activeTab = NoTab THEN NoContext
        ELSE [tabId |-> activeTab.id, widgets |-> Shown(activeTab.widgets)]

DashInit(ts) ==
    /\ tabs = ts
    /\ activeTabId = ts[1].id
    /\ viewingTemplate = None
    /\ configModal = ClosedModal
    /\ formData = ""
    /\ jsonConfig = "{}"
    /\ nextUuid = 1
    /\ lastEvent = None

ActionInit ==
    /\ loggers = [i \in Hooked(tabs, activeTabId, viewingTemplate) |-> IdleLogger]
    /\ widgetStatus = [i \in Hooked(tabs, activeTabId, viewingTemplate) |-> "idle"]
    /\ actionLog = <<>>
    /\ executed = <<>>
    /\ initiations = 0

\* ------------------------------------------------------------ store actions
\* "New View": addTab
AddTab ==
    /\ Len(tabs) < MaxTabs
    /\ tabs' = Append(tabs, [id |-> uuidv4(nextUuid), widgets |-> <<>>,
                             locked |-> FALSE])
    /\ activeTabId' = uuidv4(nextUuid)
    /\ nextUuid' = nextUuid + 1
    /\ lastEvent' = "other"
    /\ Remount(tabs', activeTabId', viewingTemplate)
    /\ UNCHANGED <<viewingTemplate, configModal, formData, jsonConfig>>
    /\ UNCHANGED <<actionLog, executed, initiations>>
    /\ UNCHANGED <<studioVars, mountVars, registryVars, jobVars, editingId,
                   notebookVars, scriptVars>>

\* a click on a template of "Global Views": viewTemplate
ViewTemplate(templateName) ==
    /\ viewingTemplate' = templateName
    /\ activeTabId' = TEMPLATES[templateName].id
    /\ lastEvent' = "other"
    /\ Remount(tabs, activeTabId', viewingTemplate')
    /\ UNCHANGED <<tabs, configModal, formData, jsonConfig, nextUuid>>
    /\ UNCHANGED <<actionLog, executed, initiations>>
    /\ UNCHANGED <<studioVars, mountVars, registryVars, jobVars, editingId,
                   notebookVars, scriptVars>>

\* a click on one of the user's tabs: handleSetActiveTabId
SetActiveTabId(id) ==
    /\ id \in TabIds(tabs)
    /\ viewingTemplate' = None
    /\ activeTabId' = id
    /\ lastEvent' = "other"
    /\ Remount(tabs, activeTabId', viewingTemplate')
    /\ UNCHANGED <<tabs, configModal, formData, jsonConfig, nextUuid>>
    /\ UNCHANGED <<actionLog, executed, initiations>>
    /\ UNCHANGED <<studioVars, mountVars, registryVars, jobVars, editingId,
                   notebookVars, scriptVars>>

\* the lock button of the header
ToggleLock ==
    /\ viewingTemplate = None
    /\ activeTabId \in TabIds(tabs)
    /\ tabs' = [k \in 1..Len(tabs) |->
                  IF tabs[k].id = activeTabId
                  THEN [tabs[k] EXCEPT !.locked = ~@] ELSE tabs[k]]
    /\ lastEvent' = "other"
    /\ UNCHANGED <<activeTabId, viewingTemplate, configModal, formData,
                   jsonConfig, nextUuid>>
    /\ UNCHANGED actionVars
    /\ UNCHANGED <<studioVars, mountVars, registryVars, jobVars, editingId,
                   notebookVars, scriptVars>>

\* ------------------------------------------------- tray, grid and modal
\* the store after an event of the dashboard: the tabs and what the grid mounts
Stored(ts) ==
    /\ tabs' = ts
    /\ Remount(ts, activeTabId, viewingTemplate)
    /\ UNCHANGED <<activeTabId, viewingTemplate>>
    /\ UNCHANGED <<actionLog, executed, initiations>>

\* ConfigModal's effect on opening: the form starts from the defaults of the
\* schema, the JSON editor from "{}"
Opened(m, type) ==
    /\ configModal' = m
    /\ IF hasSchema(type)
       THEN formData' = defaultValue(type) /\ UNCHANGED jsonConfig
       ELSE jsonConfig' = "{}" /\ UNCHANGED formData

\* columns a drop or a move can land on
DropXs == {4}

\* a click on a widget of the tray: handleWidgetClick
TrayClick(type) ==
    /\ lastEvent' = "tray"
    /\ IF isLocked
       THEN UNCHANGED <<tabs, activeTabId, viewingTemplate, configModal,
                        formData, jsonConfig, nextUuid, actionVars>>
       ELSE IF configurationMode(type) = "config_required"
       THEN /\ Opened(openConfigModal(type, activeTabId, NoPosition), type)
            /\ UNCHANGED <<tabs, activeTabId, viewingTemplate, nextUuid,
                           actionVars>>
       ELSE /\ nextUuid - Len(tabs) < MaxAdds
            /\ Stored(addWidget(tabs, activeTabId, type, NoPosition, None))
            /\ nextUuid' = nextUuid + 1
            /\ UNCHANGED <<configModal, formData, jsonConfig>>
    /\ UNCHANGED <<studioVars, mountVars, registryVars, jobVars, editingId,
                   notebookVars, scriptVars>>

\* a widget of the tray dragged onto the grid: handleDragStart, then the
\* onDrop of the grid container with handleNativeDrop
DropWidget(type, x) ==
    /\ lastEvent' = "drop"
    /\ IF isLocked \/ GridTab(tabs, activeTabId, viewingTemplate) = NoTab
       THEN UNCHANGED <<tabs, activeTabId, viewingTemplate, configModal,
                        formData, jsonConfig, nextUuid, actionVars>>
       ELSE IF configurationMode(type) = "config_required"
       THEN /\ Opened(openConfigModal(
                         type, GridTab(tabs, activeTabId, viewingTemplate).id, x),
                      type)
            /\ UNCHANGED <<tabs, activeTabId, viewingTemplate, nextUuid,
                           actionVars>>
       ELSE /\ nextUuid - Len(tabs) < MaxAdds
            /\ Stored(addWidget(tabs,
                                GridTab(tabs, activeTabId, viewingTemplate).id,
                                type, x,
                                IF hasSchema(type) THEN defaultValue(type)
                                ELSE None))
            /\ nextUuid' = nextUuid + 1
            /\ UNCHANGED <<configModal, formData, jsonConfig>>
    /\ UNCHANGED <<studioVars, mountVars, registryVars, jobVars, editingId,
                   notebookVars, scriptVars>>

\* the layout the grid reports: its items, the k-th one at column x
Layout(ws, k, x) == [j \in 1..Len(ws) |-> [i |-> ws[j].i,
                                          x |-> IF j = k THEN x ELSE ws[j].x]]

\* onLayoutChange of the grid: handleLayoutChange
LayoutChange(k, x) ==
    /\ GridTab(tabs, activeTabId, viewingTemplate) # NoTab
    /\ k \in 1..Len(GridTab(tabs, activeTabId, viewingTemplate).widgets)
    /\ lastEvent' = "layout"
    /\ IF isLocked
       THEN UNCHANGED <<tabs, activeTabId, viewingTemplate, actionVars>>
       ELSE Stored(updateLayout(
                tabs, GridTab(tabs, activeTabId, viewingTemplate).id,
                Layout(GridTab(tabs, activeTabId, viewingTemplate).widgets, k, x)))
    /\ UNCHANGED <<configModal, formData, jsonConfig, nextUuid>>
    /\ UNCHANGED <<studioVars, mountVars, registryVars, jobVars, editingId,
                   notebookVars, scriptVars>>

\* typing into the required field of the form: handleFormChange
HandleFormChange(v) ==
    /\ configModal.isOpen
    /\ hasSchema(configModal.widgetId)
    /\ formData' = v
    /\ lastEvent' = "other"
    /\ UNCHANGED <<tabs, activeTabId, viewingTemplate, configModal, jsonConfig,
                   nextUuid, actionVars>>
    /\ UNCHANGED <<studioVars, mountVars, registryVars, jobVars, editingId,
                   notebookVars, scriptVars>>

\* typing into the JSON editor: setJsonConfig
SetJsonConfig(j) ==
    /\ configModal.isOpen
    /\ ~hasSchema(configModal.widgetId)
    /\ jsonConfig' = j
    /\ lastEvent' = "other"
    /\ UNCHANGED <<tabs, activeTabId, viewingTemplate, configModal, formData,
                   nextUuid, actionVars>>
    /\ UNCHANGED <<studioVars, mountVars, registryVars, jobVars, editingId,
                   notebookVars, scriptVars>>

\* labels of the required fields the form leaves empty
missingFieldsNone(type, fd) == {}

missingFields(type, fd) == IF fd = "" THEN {"required field"} ELSE {}

\* "Add Widget": handleSave, and on success the onSave of Layout.tsx, which
\* calls the closure given to openConfigModal and closes the modal
HandleSave ==
    /\ configModal.isOpen
    /\ lastEvent' = "save"
    /\ LET type == configModal.widgetId
           rejected == IF hasSchema(type)
                       THEN missingFields(type, formData) # {}
                       ELSE jsonConfig = "invalid"
           config == IF hasSchema(type) THEN formData ELSE jsonConfig
       IN  IF rejected
           THEN UNCHANGED <<tabs, activeTabId, viewingTemplate, configModal,
                            nextUuid, actionVars>>
           ELSE /\ nextUuid - Len(tabs) < MaxAdds
                /\ Stored(addWidget(tabs, configModal.onSave.tabId,
                                    configModal.onSave.type,
                                    configModal.onSave.x, config))
                /\ nextUuid' = nextUuid + 1
                /\ configModal' = closeConfigModal
    /\ UNCHANGED <<formData, jsonConfig>>
    /\ UNCHANGED <<studioVars, mountVars, registryVars, jobVars, editingId,
                   notebookVars, scriptVars>>

\* "Cancel" and the X of the modal: onClose
CloseConfigModal ==
    /\ configModal.isOpen
    /\ configModal' = closeConfigModal
    /\ lastEvent' = "close"
    /\ UNCHANGED <<tabs, activeTabId, viewingTemplate, formData, jsonConfig,
                   nextUuid, actionVars>>
    /\ UNCHANGED <<studioVars, mountVars, registryVars, jobVars, editingId,
                   notebookVars, scriptVars>>

NextDashboard ==
    \/ AddTab
    \/ \E t \in TemplateNames : ViewTemplate(t)
    \/ \E id \in TabIds(tabs) : SetActiveTabId(id)
    \/ ToggleLock
    \/ \E type \in Library : TrayClick(type)
    \/ \E type \in Library : \E x \in DropXs : DropWidget(type, x)
    \/ \E x \in DropXs : LayoutChange(1, x)
    \/ \E v \in FieldValues : HandleFormChange(v)
    \/ \E j \in JsonTexts : SetJsonConfig(j)
    \/ HandleSave
    \/ CloseConfigModal

\* ------------------------------------------------- widgets with the hook
TypeShown(i) ==
    LET ws == GridTab(tabs, activeTabId, viewingTemplate).widgets
    IN  ws[CHOOSE k \in 1..Len(ws) : ws[k].i = i].type

\* the function the widget hands to initiateAction
ActionOf(type) == IF type = "execute_notebook" THEN "runNotebook" ELSE "performTrigger"

Explanations == {"(Skipped)", "typed"}

\* handleTrigger / handleRun: initiateAction(action)
InitiateAction(i) ==
    /\ i \in DOMAIN loggers
    /\ widgetStatus[i] # "loading"
    /\ initiations < MaxRuns
    /\ initiations' = initiations + 1
    /\ loggers' = [loggers EXCEPT ![i] =
                     [isConfirming |-> TRUE,
                      pendingAction |-> [action |-> ActionOf(TypeShown(i)),
                                         n |-> initiations + 1]]]
    /\ UNCHANGED <<widgetStatus, actionLog, executed>>
    /\ UNCHANGED <<dashVars, studioVars, mountVars, registryVars, jobVars,
                   editingId, notebookVars, scriptVars>>

\* ActionWidget.performTrigger: the call of the backend action
performTrigger(i, n) ==
    /\ widgetStatus' = [widgetStatus EXCEPT ![i] = "loading"]
    /\ executed' = Append(executed, [widget |-> i, action |-> "performTrigger",
                                     n |-> n])

\* logAction({ widget_id, widget_name, explanation, context }); onScreen is
\* bookkeeping: the widgets the grid showed when the request was issued
logAction(i, explanation, n) ==
    Append(actionLog,
           [widget_id |-> i, explanation |-> explanation,
            context |-> getDashboardContext, n |-> n,
            onScreen |-> Shown(GridTab(tabs, activeTabId, viewingTemplate).widgets)])

\* "Skip and run" / "Confirm & Run": confirmAction(explanation)
ConfirmAction(i, explanation) ==
    /\ i \in DOMAIN loggers
    /\ loggers[i].isConfirming
    /\ IF loggers[i].pendingAction # NoAction
       THEN /\ actionLog' = logAction(i, explanation, loggers[i].pendingAction.n)
            /\ performTrigger(i, loggers[i].pendingAction.n)
       ELSE UNCHANGED <<actionLog, widgetStatus, executed>>
    /\ loggers' = [loggers EXCEPT ![i] = IdleLogger]
    /\ UNCHANGED initiations
    /\ UNCHANGED <<dashVars, studioVars, mountVars, registryVars, jobVars,
                   editingId, notebookVars, scriptVars>>

\* "Cancel" / the X of the modal: cancelAction
CancelAction(i) ==
    /\ i \in DOMAIN loggers
    /\ loggers[i].isConfirming
    /\ loggers' = [loggers EXCEPT ![i] = IdleLogger]
    /\ UNCHANGED <<widgetStatus, actionLog, executed, initiations>>
    /\ UNCHANGED <<dashVars, studioVars, mountVars, registryVars, jobVars,
                   editingId, notebookVars, scriptVars>>

\* the answer of POST /api/jobs/trigger/1234 reaches a mounted ActionWidget
TriggerResponse(i, ok) ==
    /\ i \in DOMAIN widgetStatus
    /\ widgetStatus[i] = "loading"
    /\ widgetStatus' = [widgetStatus EXCEPT ![i] = IF ok THEN "success" ELSE "error"]
    /\ UNCHANGED <<loggers, actionLog, executed, initiations>>
    /\ UNCHANGED <<dashVars, studioVars, mountVars, registryVars, jobVars,
                   editingId, notebookVars, scriptVars>>

NextAction ==
    \/ AddTab
    \/ \E t \in TemplateNames : ViewTemplate(t)
    \/ \E id \in TabIds(tabs) : SetActiveTabId(id)
    \/ \E i \in DOMAIN loggers : InitiateAction(i)
    \/ \E i \in DOMAIN loggers : \E e \in Explanations : ConfirmAction(i, e)
    \/ \E i \in DOMAIN loggers : CancelAction(i)
    \/ \E i \in DOMAIN loggers : \E ok \in BOOLEAN : TriggerResponse(i, ok)

\* ================================================ DatabricksJobRunnerWidget
\* unnamed/part_004: a mounted job runner whose job_id is configured
MaxPolls == 3         \* status requests of one session

NoRun == 0

\* what GET /api/jobs/status/{run} can answer: no 2xx, a run still going, or
\* a terminal life cycle state with its result_state
StatusAnswers == {"failed request", "RUNNING", "SUCCESS", "FAILED", "CANCELED", "OTHER"}

Fetch(kind, run) == [kind |-> kind, run |-> run, id |-> pollsIssued]

JobInit ==
    /\ status = "idle"
    /\ runId = NoRun
    /\ pollingIntervalRef = NoRun
    /\ intervals = {}
    /\ fetches = {}
    /\ pollsIssued = 0
    /\ settled = None

\* if (pollingIntervalRef.current) { clearInterval(...); ...current = null }
ClearInterval ==
    /\ intervals' = intervals \ {pollingIntervalRef}
    /\ pollingIntervalRef' = NoRun

\* "Run Job": triggerJob up to its fetch
TriggerJob ==
    /\ status = "idle"
    /\ initiations < MaxRuns
    /\ status' = "triggering"
    /\ initiations' = initiations + 1
    /\ executed' = Append(executed, [widget |-> "job_runner",
                                     action |-> "triggerJob",
                                     n |-> initiations + 1])
    /\ fetches' = fetches \cup {Fetch("trigger", initiations + 1)}
    /\ settled' = None
    /\ UNCHANGED <<runId, pollingIntervalRef, intervals, pollsIssued>>
    /\ UNCHANGED <<loggers, widgetStatus, actionLog>>
    /\ UNCHANGED <<dashVars, studioVars, mountVars, registryVars, editingId,
                   notebookVars, scriptVars>>

\* triggerJob after its fetch: start polling, or the catch block
TriggerAnswer(f, ok) ==
    /\ f \in fetches
    /\ f.kind = "trigger"
    /\ IF ok
       THEN /\ pollsIssued < MaxPolls
            /\ runId' = f.run
            /\ status' = "running"
            /\ pollingIntervalRef' = f.run
            /\ intervals' = intervals \cup {f.run}
            /\ pollsIssued' = pollsIssued + 1
            /\ fetches' = (fetches \ {f}) \cup {Fetch("status", f.run)}
       ELSE /\ status' = "error"
            /\ fetches' = fetches \ {f}
            /\ UNCHANGED <<runId, pollingIntervalRef, intervals, pollsIssued>>
    /\ UNCHANGED settled
    /\ UNCHANGED actionVars
    /\ UNCHANGED <<dashVars, studioVars, mountVars, registryVars, editingId,
                   notebookVars, scriptVars>>

\* the interval of run r fires: pollJobStatus(r) up to its fetch
IntervalTick(r) ==
    /\ r \in intervals
    /\ pollsIssued < MaxPolls
    /\ pollsIssued' = pollsIssued + 1
    /\ fetches' = fetches \cup {Fetch("status", r)}
    /\ UNCHANGED <<status, runId, pollingIntervalRef, intervals, settled>>
    /\ UNCHANGED actionVars
    /\ UNCHANGED <<dashVars, studioVars, mountVars, registryVars, editingId,
                   notebookVars, scriptVars>>

\* pollJobStatus after its fetch
StatusAnswer(f, answer) ==
    /\ f \in fetches
    /\ f.kind = "status"
    /\ fetches' = fetches \ {f}
    /\ IF answer \in {"failed request", "RUNNING"}
       THEN UNCHANGED <<status, pollingIntervalRef, intervals>>
       ELSE /\ ClearInterval
            /\ status' = CASE answer = "SUCCESS" -> "success"
                           [] answer = "CANCELED" -> "cancelled"
                           [] OTHER -> "error"
    /\ UNCHANGED <<runId, pollsIssued, settled>>
    /\ UNCHANGED actionVars
    /\ UNCHANGED <<dashVars, studioVars, mountVars, registryVars, editingId,
                   notebookVars, scriptVars>>

\* "Cancel Job": cancelJob up to its fetch
CancelJob ==
    /\ status = "running"
    /\ runId # NoRun
    /\ \A f \in fetches : f.kind # "cancel"
    /\ fetches' = fetches \cup {Fetch("cancel", runId)}
    /\ UNCHANGED <<status, runId, pollingIntervalRef, intervals, pollsIssued,
                   settled>>
    /\ UNCHANGED actionVars
    /\ UNCHANGED <<dashVars, studioVars, mountVars, registryVars, editingId,
                   notebookVars, scriptVars>>

\* cancelJob after its fetch
CancelAnswer(f, ok) ==
    /\ f \in fetches
    /\ f.kind = "cancel"
    /\ fetches' = fetches \ {f}
    /\ IF ok
       THEN /\ ClearInterval
            /\ status' = "cancelled"
            /\ settled' = "cancelled"
       ELSE UNCHANGED <<status, pollingIntervalRef, intervals, settled>>
    /\ UNCHANGED <<runId, pollsIssued>>
    /\ UNCHANGED actionVars
    /\ UNCHANGED <<dashVars, studioVars, mountVars, registryVars, editingId,
                   notebookVars, scriptVars>>

\* the X of the status header and "Run Again": reset
Reset ==
    /\ status # "idle"
    /\ ClearInterval
    /\ status' = "idle"
    /\ runId' = NoRun
    /\ settled' = "idle"
    /\ UNCHANGED <<fetches, pollsIssued>>
    /\ UNCHANGED actionVars
    /\ UNCHANGED <<dashVars, studioVars, mountVars, registryVars, editingId,
                   notebookVars, scriptVars>>

NextJob ==
    \/ TriggerJob
    \/ \E f \in fetches : \E ok \in BOOLEAN : TriggerAnswer(f, ok)
    \/ \E r \in intervals : IntervalTick(r)
    \/ \E f \in fetches : \E a \in StatusAnswers : StatusAnswer(f, a)
    \/ CancelJob
    \/ \E f \in fetches : \E ok \in BOOLEAN : CancelAnswer(f, ok)
    \/ Reset

\* ================================================= ExecuteNotebookWidget
\* The widget that runs a notebook and polls the run's status
\* (src/widgets/ExecuteNotebookWidget.tsx).
MaxNotebookRuns == 2  \* runs the user starts in one session

\* const maxPolls = 60
maxPolls == 60

Notebooks == {"nb"}

\* what GET /api/jobs/status/{runId} answers: a response that is not ok or not
\* JSON, or life_cycle_state with result_state
NotebookAnswers ==
    {"failed", "RUNNING", "TERMINATED/SUCCESS", "TERMINATED/FAILED",
     "INTERNAL_ERROR"}

\* a run in progress: the request or timer its chain waits for, the pollCount
\* of its pollNotebookExecution call and, as bookkeeping, the status requests
\* the call has issued
Poll(run, at, pollCount, requests) ==
    [run |-> run, at |-> at, pollCount |-> pollCount, requests |-> requests]

NotebookInit ==
    /\ selectedNotebook = ""
    /\ notebookStatus = "idle"
    /\ result = FALSE
    /\ polls = {}
    /\ notebookRuns = 0

\* onChange of the select: setSelectedNotebook, setStatus('idle'),
\* setResult(null)
SelectNotebook(v) ==
    /\ v # selectedNotebook
    /\ selectedNotebook' = v
    /\ notebookStatus' = "idle"
    /\ result' = FALSE
    /\ UNCHANGED <<polls, notebookRuns>>
    /\ UNCHANGED <<studioVars, mountVars, registryVars, dashVars, actionVars,
                   jobVars, editingId, scriptVars>>

\* runNotebook up to its fetch, as confirmAction calls it after the Run button
\* (disabled without a notebook and while loading) was clicked
RunNotebook ==
    /\ selectedNotebook # ""
    /\ notebookStatus # "loading"
    /\ notebookRuns < MaxNotebookRuns
    /\ notebookStatus' = "loading"
    /\ result' = FALSE
    /\ notebookRuns' = notebookRuns + 1
    /\ polls' = polls \cup {Poll(notebookRuns + 1, "execute", 0, 0)}
    /\ UNCHANGED selectedNotebook
    /\ UNCHANGED <<studioVars, mountVars, registryVars, dashVars, actionVars,
                   jobVars, editingId, scriptVars>>

\* setStatus('error'); setResult({ error }): the chain of p ends
NotebookFails(p) ==
    /\ notebookStatus' = "error"
    /\ result' = TRUE
    /\ polls' = polls \ {p}

\* POST /api/jobs/execute-notebook is answered: pollNotebookExecution(run_id)
\* issues the first status request, or the catch reports the failure
ExecuteAnswer(p, ok) ==
    /\ p \in polls
    /\ p.at = "execute"
    /\ IF ok
       THEN /\ polls' = (polls \ {p}) \cup {Poll(p.run, "status", 0, 1)}
            /\ UNCHANGED <<notebookStatus, result>>
       ELSE NotebookFails(p)
    /\ UNCHANGED <<selectedNotebook, notebookRuns>>
    /\ UNCHANGED <<studioVars, mountVars, registryVars, dashVars, actionVars,
                   jobVars, editingId, scriptVars>>

\* variant: a run that is still running is polled again whatever pollCount is
MayPollAgainAlways(pollCount) == TRUE

\* else if (pollCount < maxPolls)
MayPollAgain(pollCount) == pollCount < maxPolls

\* poll(): the status request of p is answered
NotebookStatusAnswer(p, answer) ==
    /\ p \in polls
    /\ p.at = "status"
    /\ CASE answer = "TERMINATED/SUCCESS" ->
              \* fetch(`/api/jobs/output/${runId}`)
              /\ polls' = (polls \ {p}) \cup {[p EXCEPT !.at = "output"]}
              /\ UNCHANGED <<notebookStatus, result>>
         [] answer \in {"failed", "TERMINATED/FAILED", "INTERNAL_ERROR"} ->
              NotebookFails(p)
         [] answer = "RUNNING" ->
              IF MayPollAgain(p.pollCount)
              THEN \* pollCount++; setTimeout(poll, 5000)
                   /\ polls' = (polls \ {p}) \cup
                         {[p EXCEPT !.at = "timer", !.pollCount = p.pollCount + 1]}
                   /\ UNCHANGED <<notebookStatus, result>>
              ELSE NotebookFails(p)
    /\ UNCHANGED <<selectedNotebook, notebookRuns>>
    /\ UNCHANGED <<studioVars, mountVars, registryVars, dashVars, actionVars,
                   jobVars, editingId, scriptVars>>

\* the 5000 ms timer of p fires: poll() issues the next status request
PollTimer(p) ==
    /\ p \in polls
    /\ p.at = "timer"
    /\ polls' = (polls \ {p}) \cup
                   {[p EXCEPT !.at = "status", !.requests = p.requests + 1]}
    /\ UNCHANGED <<selectedNotebook, notebookStatus, result, notebookRuns>>
    /\ UNCHANGED <<studioVars, mountVars, registryVars, dashVars, actionVars,
                   jobVars, editingId, scriptVars>>

\* the output request of p is answered: setStatus('success') with the output,
\* or the catch reports a rejected fetch or a body that is not JSON
OutputAnswer(p, ok) ==
    /\ p \in polls
    /\ p.at = "output"
    /\ IF ok
       THEN /\ notebookStatus' = "success"
            /\ result' = TRUE
            /\ polls' = polls \ {p}
       ELSE NotebookFails(p)
    /\ UNCHANGED <<selectedNotebook, notebookRuns>>
    /\ UNCHANGED <<studioVars, mountVars, registryVars, dashVars, actionVars,
                   jobVars, editingId, scriptVars>>

\* "Clear" of the result pane: handleRefresh
HandleRefresh ==
    /\ result
    /\ notebookStatus' = "idle"
    /\ result' = FALSE
    /\ UNCHANGED <<selectedNotebook, polls, notebookRuns>>
    /\ UNCHANGED <<studioVars, mountVars, registryVars, dashVars, actionVars,
                   jobVars, editingId, scriptVars>>

\* a step of a run in progress: a request is answered or a timer fires
PollStep ==
    \/ \E p \in polls : \E ok \in BOOLEAN : ExecuteAnswer(p, ok)
    \/ \E p \in polls : \E a \in NotebookAnswers : NotebookStatusAnswer(p, a)
    \/ \E p \in polls : PollTimer(p)
    \/ \E p \in polls : \E ok \in BOOLEAN : OutputAnswer(p, ok)

NextNotebook ==
    \/ \E v \in Notebooks \cup {""} : SelectNotebook(v)
    \/ RunNotebook
    \/ PollStep
    \/ HandleRefresh

\* ================================================================ useScript
\* The script-loader hook handed to generated components (hooks/useScript.ts):
\* the components of one page that call useScript(url, name) for one url.
Consumers == {"c1", "c2", "c3", "c4"}

NoScript == "absent"

\* a component that is not mounted has no cells and no listeners
Unmounted ==
    [mounted |-> FALSE, loaded |-> FALSE, error |-> FALSE, listening |-> FALSE,
     afterLoad |-> FALSE]

ScriptInit ==
    /\ windowGlobal = FALSE
    /\ script = NoScript
    /\ finished = None
    /\ appended = 0
    /\ consumers = [c \in Consumers |-> Unmounted]

\* setAttributeFromEvent is a listener the effect of a mounted consumer adds
\* and its cleanup removes: the attribute changes only if one listens
StatusAfter(event, listening) ==
    IF listening THEN (IF event = "load" THEN "ready" ELSE "error") ELSE script

\* a component calling the hook mounts: useState(false) twice, then the effect
MountConsumer(c) ==
    /\ ~consumers[c].mounted
    /\ IF windowGlobal
       THEN \* if (window[name]) { setLoaded(true); return }
            /\ consumers' = [consumers EXCEPT ![c] =
                  [mounted |-> TRUE, loaded |-> TRUE, error |-> FALSE,
                   listening |-> FALSE, afterLoad |-> finished = "load"]]
            /\ UNCHANGED <<script, appended>>
       ELSE \* querySelector, createElement and appendChild if there is none
            /\ script' = IF script = NoScript THEN "loading" ELSE script
            /\ appended' = IF script = NoScript THEN appended + 1 ELSE appended
            \* the listeners are added, then data-status is read
            /\ consumers' = [consumers EXCEPT ![c] =
                  [mounted |-> TRUE, loaded |-> script' = "ready",
                   error |-> script' = "error", listening |-> TRUE,
                   afterLoad |-> finished = "load"]]
    /\ UNCHANGED <<windowGlobal, finished>>
    /\ UNCHANGED <<studioVars, mountVars, registryVars, dashVars, actionVars,
                   jobVars, editingId, notebookVars>>

\* the component unmounts: the cleanup removes its four listeners
UnmountConsumer(c) ==
    /\ consumers[c].mounted
    /\ consumers' = [consumers EXCEPT ![c] = Unmounted]
    /\ UNCHANGED <<windowGlobal, script, finished, appended>>
    /\ UNCHANGED <<studioVars, mountVars, registryVars, dashVars, actionVars,
                   jobVars, editingId, notebookVars>>

\* setStateFromEvent of a consumer that listens
StateFromEvent(event, k) ==
    IF k.listening
    THEN [k EXCEPT !.loaded = (event = "load"), !.error = (event # "load")]
    ELSE k

\* the script element's fetch ends: with "load" the script has run, and
\* defines tells whether running it has set window[name]; with "error" it has
\* not run.  The element's listeners are called.
ScriptEvent(event, defines) ==
    /\ script # NoScript
    /\ finished = None
    /\ event = "error" => ~defines
    /\ finished' = event
    /\ windowGlobal' = (windowGlobal \/ defines)
    /\ script' = StatusAfter(event, \E c \in Consumers : consumers[c].listening)
    /\ consumers' = [c \in Consumers |-> StateFromEvent(event, consumers[c])]
    /\ UNCHANGED appended
    /\ UNCHANGED <<studioVars, mountVars, registryVars, dashVars, actionVars,
                   jobVars, editingId, notebookVars>>

NextScript ==
    \/ \E c \in Consumers : MountConsumer(c)
    \/ \E c \in Consumers : UnmountConsumer(c)
    \/ \E e \in {"load", "error"} : \E d \in BOOLEAN : ScriptEvent(e, d)

\* ------------------------------------------------- reload, delete, publish
\* window.location.reload(): every component starts from its initial state
\* and nothing is mounted
PageReload ==
    /\ code' = HelloSource
    /\ prompt' = ""
    /\ messages' = <<WelcomeTurn>>
    /\ isGenerating' = FALSE
    /\ previewError' = None
    /\ previewComponent' = None
    /\ viewMode' = "preview"
    /\ babel' \in BOOLEAN
    /\ editLoad' = FALSE
    /\ boundary' = "unmounted"
    /\ boundaryError' = None
    /\ boundaryChild' = None
    /\ debounce' = <<[rem |-> DebounceTicks, code |-> HelloSource,
                      replaced |-> FALSE,
                      snap |-> Snapshot(<<WelcomeTurn>>, FALSE, None),
                      origin |-> "mount", streak |-> FALSE,
                     prompted |-> None]>>
    /\ retryTimers' = <<>>
    /\ inflight' = {}
    /\ requestCount' = 0
    /\ uncaught' = FALSE
    /\ evaluated' = [code |-> None, replaced |-> FALSE]
    /\ editCount' = 0
    /\ autoChain' = <<>>
    /\ sites' = [s \in Slots |-> "absent"]
    /\ hostAlive' = TRUE
    /\ faulted' = NoSlot
    /\ editingId' = None
    \* the store starts from localStorage, every widget from its initial state
    /\ tabs' = tabs
    /\ activeTabId' = tabs[1].id
    /\ viewingTemplate' = None
    /\ configModal' = ClosedModal
    /\ formData' = ""
    /\ jsonConfig' = "{}"
    /\ loggers' = [i \in Hooked(tabs, tabs[1].id, None) |-> IdleLogger]
    /\ widgetStatus' = [i \in Hooked(tabs, tabs[1].id, None) |-> "idle"]
    /\ status' = "idle"
    /\ runId' = NoRun
    /\ pollingIntervalRef' = NoRun
    /\ intervals' = {}
    /\ fetches' = {}
    /\ settled' = None
    /\ windowGlobal' = FALSE
    /\ script' = NoScript
    /\ finished' = None
    /\ consumers' = [c \in Consumers |-> Unmounted]
    /\ UNCHANGED appended
    /\ selectedNotebook' = ""
    /\ notebookStatus' = "idle"
    /\ result' = FALSE
    /\ polls' = {}
    /\ UNCHANGED <<nextUuid, lastEvent, actionLog, executed, initiations,
                   pollsIssued, notebookRuns>>

\* handleDeleteWidget after the user has confirmed: DELETE, and on res.ok
\* window.location.reload(): the page, and with it every module, starts anew
DeleteWidget(id, ok) ==
    /\ lastOp.n < MaxOps
    /\ id \in Keys(widgetRegistry)
    /\ ok => stored[id] # None
    /\ IF ok
       THEN /\ stored' = [stored EXCEPT ![id] = None]
            /\ pageLoads' = pageLoads + 1
            /\ widgetRegistry' = <<>>
            /\ version' = 0
            /\ registered' = [k \in Ids \cup {""} |-> [times |-> 0, def |-> NoDef]]
            /\ lastOp' = Op("delete", id, None, "ok")
            /\ PageReload
       ELSE /\ lastOp' = Op("delete", id, None, "failed")
            /\ UNCHANGED <<stored, pageLoads, widgetRegistry, version, registered>>
            /\ UNCHANGED <<studioVars, mountVars, hostVars>>

NextRegistry ==
    \/ \E def \in Defs : Transpile(def.src).ok /\ CallRegisterWidget(def)
    \/ LoadCustomWidgets
    \/ \E id \in Ids : \E src \in DefSources : \E ok \in BOOLEAN : Publish(id, src, ok)
    \/ \E id \in Ids : \E ok \in BOOLEAN : DeleteWidget(id, ok)

\* create(def) of the persistence service: the new widget is stored under an
\* id no stored widget has, None when the service has no id left
create(st) ==
    IF \A id \in Ids : st[id] # None THEN None
    ELSE IdOrder[CHOOSE i \in 1..Len(IdOrder) :
                    /\ st[IdOrder[i]] = None
                    /\ \A j \in 1..(i - 1) : st[IdOrder[j]] # None]

\* "Publish" of the studio: handlePublish of the session, with the source src
\* in the editor.  The request goes to the widget of editingId if the session
\* has one, otherwise the service creates a widget; editingId is not set.
HandlePublish(src, ok) ==
    LET isEditing == editingId # None
        id == IF isEditing THEN editingId ELSE create(stored)
    IN  /\ id # None
        /\ Publish(id, src, ok)

NextPublish ==
    \/ \E def \in Defs : Transpile(def.src).ok /\ CallRegisterWidget(def)
    \/ LoadCustomWidgets
    \/ \E src \in DefSources : \E ok \in BOOLEAN : HandlePublish(src, ok)
    \/ \E id \in Ids : \E ok \in BOOLEAN : DeleteWidget(id, ok)

\* a session opened from "Widget Studio": no editWidgetId
HostInit ==
    /\ DashInit(DEFAULT_TABS) /\ ActionInit /\ JobInit /\ editingId = None
    /\ NotebookInit /\ ScriptInit

Init == StudioInit(FALSE) /\ MountInit /\ RegistryInit /\ HostInit

Next ==
    \/ \E p \in Prompts : SubmitPrompt(p)
    \/ \E c \in Sources : EditCode(c)
    \/ \E v \in ViewModes : SetViewMode(v)
    \/ TryAgain
    \/ EvaluateCode
    \/ RetryFire(MaxRequests)
    \/ \E r \in inflight : \E c \in Sources \cup {None} : ResponseOk(r, c)
    \/ \E r \in inflight : \E how \in {"http", "network"} : ResponseError(r, how)
    \/ Tick

Spec == Init /\ [][Next]_vars

\* A session opened on a stored widget (editWidgetId given) and left
\* unattended: the edit-load effect, the timers and the generation service act,
\* the user does not.
InitUnattended == StudioInit(TRUE) /\ MountInit /\ RegistryInit /\ HostInit

NextUnattended ==
    \/ \E c \in Sources \cup {None} : LoadForEdit(c)
    \/ EvaluateCode
    \/ RetryFire(MaxCorrections)
    \/ \E r \in inflight : \E c \in Sources \cup {None} : ResponseOk(r, c)
    \/ \E r \in inflight : \E how \in {"http", "network"} : ResponseError(r, how)
    \/ Tick

SpecUnattended == InitUnattended /\ [][NextUnattended]_vars

\* the dashboard with its mount sites
SpecMount == Init /\ [][NextMount]_vars

\* the registry, the publish path and the delete path
SpecRegistry == Init /\ [][NextRegistry]_vars

\* a dashboard holding an ActionWidget, restored from localStorage
InitAction ==
    /\ StudioInit(FALSE) /\ babel /\ MountInit /\ RegistryInit
    /\ DashInit(SavedTabs) /\ ActionInit /\ JobInit /\ editingId = None
    /\ NotebookInit /\ ScriptInit

\* the views of the dashboard and the widgets that confirm and log their action
SpecAction == InitAction /\ [][NextAction]_vars

InitJob == Init /\ babel

\* the job runner of a dashboard
SpecJob == InitJob /\ [][NextJob]_vars

InitDashboard == Init /\ babel

\* the dashboard: its tabs, the tray, the grid and the configuration modal
SpecDashboard == InitDashboard /\ [][NextDashboard]_vars

InitPublish == Init /\ babel

\* a new-widget session of the studio publishing to the registry
SpecPublish == InitPublish /\ [][NextPublish]_vars

InitNotebook == Init /\ babel

\* the notebook widget; every request is answered and every timer fires
SpecNotebook == InitNotebook /\ [][NextNotebook]_vars /\ WF_vars(PollStep)

InitScript == Init /\ babel

\* the components of a page that load one script through useScript
SpecScript == InitScript /\ [][NextScript]_vars

\* ===================================================================== claims
\* the step in which the response of request r arrives
Answered(r) == r \in inflight /\ \A q \in inflight' : q.id # r.id

\* the step in which evaluateCode runs
Evaluated == debounce # <<>> /\ debounce' = Tail(debounce)

\* the step in which a retry timer fires and issues its request
Fired == requestCount' = requestCount + 1 /\ Len(retryTimers') = Len(retryTimers) - 1

\* the request issued in this step
Issued == CHOOSE r \in inflight' : r.id = requestCount'

\* C1: a response to a request that was outstanding when the user edited the
\* source by hand is discarded: it does not replace the source.
C1_EditSupersedesResponse ==
    [][\A r \in inflight : (r.edited /\ Answered(r)) => code' = code]_vars

\* C2: of two outstanding requests the later-issued one decides the source: a
\* response of the earlier request that arrives after the later request's code
\* was applied does not replace the source.
C2_LaterRequestWins ==
    [][\A r \in inflight : (r.stale /\ Answered(r)) => code' = code]_vars

C4_OneAutoCorrectionInFlight == Cardinality({r \in inflight : r.auto}) <= 1

\* C5: the source the user edited by hand during an automatic-correction
\* streak, when its evaluation fails, triggers one fresh automatic correction,
\* also when the error text is the one already seen.
C5_EditStartsFreshStreak ==
    [][(/\ Evaluated
        /\ Head(debounce).origin = "edit"
        /\ Head(debounce).streak
        /\ ~TryEvaluate(code).ok)
       => Len(retryTimers') = Len(retryTimers) + 1]_vars

\* C6: no automatic correction scheduled before a prompt was submitted is sent
\* after it: submitting the prompt cancels the pending ones.
C6_PromptCancelsPendingRetry == \A r \in inflight : r.auto => ~r.prePrompt

\* the step in which the boundary catches a render error
Caught == boundary # "failed" /\ boundary' = "failed"

\* the step schedules a retry for a render error
RenderRetryScheduled ==
    /\ Len(retryTimers') = Len(retryTimers) + 1
    /\ retryTimers'[Len(retryTimers')].kind = "render"

C8_RenderFailureContained ==
    [][faulted' # NoSlot =>
          /\ hostAlive'
          /\ sites'[faulted'] = "fallback"
          /\ \A o \in Slots \ {faulted'} : sites'[o] = sites[o]]_vars

\* C9: once a later compile has supplied another component, the boundary is
\* no longer in its failed state: it is failed only for the component it
\* caught.
C9_NewComponentRecovers == boundary = "failed" => boundaryChild = previewComponent

\* C10: an evaluation that fails is caught: the error's text becomes the
\* preview error, the component is cleared, and nothing escapes.
C10_EvaluationFailureRecorded ==
    [][(Evaluated /\ ~TryEvaluate(code).ok)
       => /\ previewError' = TryEvaluate(code).thrown
          /\ previewComponent' = None
          /\ ~uncaught']_vars

\* C11: a source replaced within its quiet period is never compiled: at most
\* one evaluation is pending and it is for the current source, and the source
\* an evaluation compiles and puts into the preview is the current one.
C11_OnlyCurrentSourceCompiled ==
    [][/\ Len(debounce) <= 1
       /\ \A i \in 1..Len(debounce) : debounce[i].code = code
       /\ Evaluated =>
             /\ evaluated'.code = code
             /\ TryEvaluate(code).ok => previewComponent' = TryEvaluate(code).component
       /\ evaluated' # evaluated => Evaluated]_vars

\* C11 witness: a source was replaced before its timer fired, and the one that
\* replaced it has been compiled and mounted
C11_Witness ==
    /\ evaluated.replaced
    /\ evaluated.code = code
    /\ debounce = <<>>
    /\ previewComponent = "hello"
    /\ boundary = "ok"

\* the step in which the fetch of request r fails in transport
TransportFailed(r) ==
    /\ Answered(r)
    /\ messages'[Len(messages')] \in {ServerErrorTurn, NetworkErrorTurn}

\* C12: a transport failure leaves the source as it is, appends exactly one
\* system turn to the conversation, removing none, and ends with isGenerating
\* false.
C12_TransportFailureKeepsState ==
    [][\A r \in inflight : TransportFailed(r) =>
          /\ code' = code
          /\ Len(messages') = Len(messages) + 1
          /\ SubSeq(messages', 1, Len(messages)) = messages
          /\ messages'[Len(messages')].role = "system"
          /\ ~isGenerating']_vars

C14_ConversationAppendOnly ==
    [][/\ Len(messages') >= Len(messages)
       /\ SubSeq(messages', 1, Len(messages)) = messages]_vars

\* C15: the registry lists exactly one definition for every id registered
\* since the page was loaded, the one of the last registerWidget call for that
\* id, under that id; and none for any other id.
C15_OneEntryPerIdLastWins ==
    LET listed == getAvailableWidgets(widgetRegistry)
        At(id) == {i \in 1..Len(listed) : listed[i].id = id}
    IN  \A id \in Ids \cup {""} :
            IF registered[id].times = 0
            THEN At(id) = {} /\ id \notin Keys(widgetRegistry)
            ELSE /\ Cardinality(At(id)) = 1
                 /\ \A i \in At(id) : /\ listed[i] = registered[id].def
                                      /\ widgetRegistry[i].key = id

\* C15 witness: an id registered more than once, next to another id
C15_Witness ==
    /\ lastOp.op = "register"
    /\ registered[lastOp.id].times >= 2
    /\ Len(widgetRegistry) = 2
    /\ \E i \in 1..2 : /\ widgetRegistry[i].key = lastOp.id
                       /\ widgetRegistry[i].def.src = "rthrow"

\* the step performs a registry operation of kind op that succeeds
Succeeds(ops) ==
    /\ lastOp'.n # lastOp.n
    /\ lastOp'.op \in ops
    /\ lastOp'.outcome \in {"ok", "published"}

\* C16: the version token never decreases, and every successful register,
\* update or remove leaves it strictly greater.
C16_VersionStrictlyIncreases ==
    [][/\ version' >= version
       /\ Succeeds({"register", "publish", "delete"}) => version' > version]_vars

\* C17: a register or publish with an empty id, or of a source that does not
\* compile, is turned down, and leaves the registry's entries and the version
\* token as they were.
C17_PublishGate ==
    [][(/\ lastOp'.n # lastOp.n
        /\ lastOp'.op \in {"register", "publish"}
        /\ \/ lastOp'.id = ""
           \/ lastOp'.src # None /\ ~Transpile(lastOp'.src).ok)
       => /\ lastOp'.outcome \in {"rejected", "failed"}
          /\ widgetRegistry' = widgetRegistry
          /\ version' = version]_vars

\* C18: whenever the source last evaluated failed to compile, the preview
\* shows a compile error.
C18_FailedSourceShowsError ==
    (evaluated.code # None /\ ~TryEvaluate(evaluated.code).ok) => previewError # None

\* C19: left alone, the studio stops sending automatic corrections by
\* itself: their number stays below the number of requests the model lets a
\* session issue.
C19_AutoCorrectionsCapped == Len(autoChain) < MaxCorrections

\* C20: a successful delete removes the widget from the listed widgets
\* without loading the application anew.
C20_DeleteWithoutReload ==
    [][Succeeds({"delete"}) =>
          /\ pageLoads' = pageLoads
          /\ \A i \in 1..Len(getAvailableWidgets(widgetRegistry')) :
                getAvailableWidgets(widgetRegistry')[i].id # lastOp'.id]_vars

\* C21: an action handed to initiateAction runs only in confirmAction and at
\* most once for its initiation, together with a log request that carries an
\* explanation and the dashboard on screen; cancelAction drops the pending
\* action and neither runs nor logs anything.
C21_ConfirmLogsThenRuns ==
    /\ [](\A k \in 1..Len(executed) :
            /\ \A j \in 1..Len(executed) : executed[j].n = executed[k].n => j = k
            /\ \E j \in 1..Len(actionLog) :
                  /\ actionLog[j].n = executed[k].n
                  /\ actionLog[j].explanation \in Explanations
                  /\ "widgets" \in DOMAIN actionLog[j].context
                  /\ actionLog[j].context.widgets = actionLog[j].onScreen)
    /\ [][\A i \in DOMAIN loggers :
            (/\ loggers[i].isConfirming
             /\ i \in DOMAIN loggers'
             /\ ~loggers'[i].isConfirming
             /\ executed' = executed)
            => /\ actionLog' = actionLog
               /\ loggers'[i].pendingAction = NoAction]_vars

\* C22: every backend action an executable widget has called was preceded
\* by an action-log request for that execution.
C22_ExecutionLoggedFirst ==
    \A k \in 1..Len(executed) :
        \E j \in 1..Len(actionLog) :
            /\ actionLog[j].n = executed[k].n
            /\ actionLog[j].widget_id = executed[k].widget

\* C28: once the trigger request of a run has been answered, from reset() or
\* a successful cancel until the next trigger the job runner's status stays
\* what that step left ('idle', 'cancelled'), whatever answers of status
\* requests still arrive, and no status request is issued in between.
C28_SettledStatusStays ==
    [][(/\ settled # None
        /\ settled' # None
        /\ status = settled
        /\ \A f \in fetches : f.kind # "trigger")
       => /\ status' = settled'
          /\ pollsIssued' = pollsIssued]_vars

\* every widget record the tabs hold
AllWidgets(ts) ==
    UNION {{ts[k].widgets[j] : j \in 1..Len(ts[k].widgets)} : k \in 1..Len(ts)}

C29_ReadOnlyViewKeepsTabs ==
    [][(ReadOnlyView /\ lastEvent' \in {"tray", "drop", "layout"})
       => WidgetLists(tabs') = WidgetLists(tabs)]_vars

\* C24: a failed boundary leaves the failed state only in a step that supplies
\* a new component value: no other step, the "Try Again" click included, takes
\* the boundary out of its fallback.
C24_FailedUntilNewComponent ==
    [][(boundary = "failed" /\ boundary' # "failed")
       => (previewComponent' # None /\ previewComponent' # previewComponent)]_vars

\* the step evaluates the source a prompt's response delivered, submitted
\* while the error e was displayed, and the source fails with e again
PromptedSourceFailsAgain ==
    /\ Evaluated
    /\ Head(debounce).prompted # None
    /\ ~TryEvaluate(Head(debounce).code).ok
    /\ ~ErrorMsgRaises(TryEvaluate(Head(debounce).code).thrown)
    /\ ErrorMsg(TryEvaluate(Head(debounce).code).thrown) = Head(debounce).prompted

\* C25: the source generated for a prompt, when it fails with the error text
\* that was displayed before the prompt, still triggers one automatic
\* correction for that error.
C25_PromptResetsStreak ==
    [][(PromptedSourceFailsAgain /\ ~InStreak /\ inflight = {})
       => /\ Len(retryTimers') = Len(retryTimers) + 1
          /\ retryTimers'[Len(retryTimers')].err = Head(debounce).prompted]_vars

\* the step in which a publish request is answered with success
PublishedNow ==
    /\ lastOp'.n = lastOp.n + 1
    /\ lastOp'.op = "publish"
    /\ lastOp'.outcome = "published"

\* C26: in a session that has published a new widget, the next publish goes to
\* that widget: it has the same id and stores no further widget.
C26_RepublishUpdatesSameWidget ==
    [][(/\ lastOp.op = "publish" /\ lastOp.outcome = "published"
        /\ PublishedNow)
       => /\ lastOp'.id = lastOp.id
          /\ {id \in Ids : stored'[id] # None} = {id \in Ids : stored[id] # None}]_vars

\* C27: a run issues at most 1 + maxPolls status requests (the first and
\* maxPolls re-polls), the step that ends a run sets the status to success or
\* error, and, every request being answered and every timer firing, a widget
\* that is loading eventually shows success or error.
C27_PollingBoundedAndEnds ==
    /\ [](\A p \in polls : p.pollCount <= maxPolls /\ p.requests <= 1 + maxPolls)
    /\ [][(polls' # polls /\ polls' \subseteq polls)
          => notebookStatus' \in {"success", "error"}]_vars
    /\ (notebookStatus = "loading") ~> (notebookStatus \in {"success", "error"})

\* C27 witness: a run has used all its re-polls and its last status request
\* is outstanding
C27_Witness ==
    \E p \in polls :
        /\ p.at = "status" /\ p.pollCount = maxPolls /\ p.requests = 1 + maxPolls
        /\ notebookStatus = "loading"

\* C30: a consumer mounted after the script's load event reports loaded, and
\* at most one script element of the url is appended.
C30_LateConsumerLoaded ==
    /\ \A c \in Consumers :
          (consumers[c].mounted /\ consumers[c].afterLoad) => consumers[c].loaded
    /\ appended <= 1

====
